---- MODULE Spec2Model ----
(***************************************************************************)
(* The dependency graph of pkg/template/depgraph.go, as a state machine.   *)
(*                                                                         *)
(* A depGraph holds one field, Dependencies, a Go map of maps.  Go maps    *)
(* are references, so the model keeps them in a heap: mem.outer holds the  *)
(* map[string]map[string]struct{} objects, mem.inner the                   *)
(* map[string]struct{} objects, and mem.dep the Dependencies field of each *)
(* depGraph value (NilMap when the field is nil).                          *)
(*                                                                         *)
(* Spec runs the methods of depGraph in any order on a graph d and on the  *)
(* result of d.Copy().  SpecResolve runs ParseConfigGroup over a schema    *)
(* and then the resolution loop over the graph it built, one item a step;  *)
(* SpecSchema does the same on a schema handed over whole.  SpecFuncMap    *)
(* calls the functions of funcMap directly.                                *)
(*                                                                         *)
(* SpecRedact is the redactor store of kotsadm/pkg/redact/redact.go: the   *)
(* ConfigMap "kotsadm-redact" in the cluster and two processes calling     *)
(* GetRedactInfo, SetRedactYaml and DeleteRedact, each call a fetch of the *)
(* ConfigMap followed, where the code writes, by an Update of the object   *)
(* that was fetched.  Strings the code takes apart (names, slugs, keys)    *)
(* are sequences of characters.                                            *)
(***************************************************************************)
EXTENDS Integers, Sequences, FiniteSets, TLC

VARIABLES
    mem,      \* the heap of maps and the Dependencies field of each depGraph
    copied,   \* whether depCopy has been produced by d.Copy()
    last,     \* the call made last: [op, g, source, dep]
    pre,      \* Dependencies of every depGraph, by value, before the last call
    ret,      \* what the last call returned
    nops,     \* number of calls made so far
    pc,       \* where the discovery and resolution passes stand
    configItems,   \* the names of the configuration items discovery has visited, in order
    sawRenderErr,  \* whether a render of the discovery pass returned an error
    parseErr,      \* what ParseConfigGroup returned
    recorded,      \* Dependencies, by value, when ParseConfigGroup returned
    iter,          \* number of iterations of the resolution loop completed
    headIter,      \* node -> the iteration whose GetHeadNodes returned it
    resolvedIter,  \* node -> the iteration that called ResolveDep on it
    resolveCount,  \* node -> how many times it was rendered and resolved
    configGroups,  \* the schema handed to ParseConfigGroup, when it is handed whole
    cluster,       \* the ConfigMap "kotsadm-redact" as the cluster holds it
    running,       \* process -> the call of the redact package it is in
    now            \* the clock time.Now() reads

apiVars == <<mem, copied, last, pre, ret, nops>>

passVars == <<pc, configItems, sawRenderErr, parseErr, recorded, iter, headIter,
              resolvedIter, resolveCount>>

\* what no operation of the depGraph writes
extVars == <<configGroups, cluster, running, now>>

\* what no operation of the redact package writes
graphVars == <<mem, copied, last, pre, ret, nops, pc, configItems, sawRenderErr, parseErr,
               recorded, iter, headIter, resolvedIter, resolveCount, configGroups>>

vars == <<mem, copied, last, pre, ret, nops, pc, configItems, sawRenderErr, parseErr,
          recorded, iter, headIter, resolvedIter, resolveCount, configGroups,
          cluster, running, now>>

----------------------------------------------------------------------------
(* Bounds *)

\* number of calls explored on the graph API
MaxOps == 4

\* number of configuration items of a schema
MaxItems == 3

----------------------------------------------------------------------------
(* Strings *)

\* a string holding a byte that is not valid UTF-8, as the template literal "\xff" yields
InvalidUTF8 == "\\xff"

\* U+FFFD, which encoding/json writes in place of invalid bytes
ReplacementChar == "\\ufffd"

\* the names the API calls draw from
Strings == {"A", "B", InvalidUTF8}

\* every string that can appear in a graph
AllStrings == Strings \cup {ReplacementChar}

\* the strings in increasing byte order (encoding/json sorts map keys)
ByteOrder == <<"A", "B", ReplacementChar, InvalidUTF8>>

\* the two depGraph values of the model: the receiver d and the result of d.Copy()
Graphs == {"d", "depCopy"}

\* a nil map
NilMap == 0

\* the map with no keys
EmptyMap == [k \in {} |-> {}]

Range(f) == {f[k] : k \in DOMAIN f}

Restrict(f, S) == [k \in S |-> f[k]]

\* every order in which the keys of a map can be iterated
Orderings(S) ==
    {s \in [1..Cardinality(S) -> S] : \A i, j \in 1..Cardinality(S) : i /= j => s[i] /= s[j]}

\* make(map...): an address not in use
Fresh(used) == CHOOSE a \in 1..(Cardinality(used) + 1) : a \notin used

\* d.Dependencies, by value: node -> set of names it depends on
View(m, g) ==
    IF m.dep[g] = NilMap THEN EmptyMap
    ELSE [n \in DOMAIN m.outer[m.dep[g]] |-> m.inner[m.outer[m.dep[g]][n]]]

Views(m) == [g \in Graphs |-> View(m, g)]

\* the garbage collector: maps no depGraph reaches are dropped
Collect(m) ==
    LET liveOuter == {m.dep[g] : g \in Graphs} \ {NilMap}
        liveInner == UNION {Range(m.outer[o]) : o \in liveOuter}
    IN  [dep |-> m.dep, outer |-> Restrict(m.outer, liveOuter),
         inner |-> Restrict(m.inner, liveInner)]

----------------------------------------------------------------------------
(* depGraph *)

\* AddNode without the test for a node that is already there
AddNodeReset(m, g, source) ==
    LET o1 == Fresh(DOMAIN m.outer)
        m1 == IF m.dep[g] = NilMap
              THEN [m EXCEPT !.dep[g] = o1, !.outer = (o1 :> EmptyMap) @@ @]
              ELSE m
        o  == m1.dep[g]
        i1 == Fresh(DOMAIN m1.inner)
    IN  [m1 EXCEPT !.outer[o] = (source :> i1) @@ @, !.inner = (i1 :> {}) @@ @]

AddNode(m, g, source) ==
    LET o1 == Fresh(DOMAIN m.outer)
        m1 == IF m.dep[g] = NilMap
              THEN [m EXCEPT !.dep[g] = o1, !.outer = (o1 :> EmptyMap) @@ @]
              ELSE m
        o  == m1.dep[g]
        i1 == Fresh(DOMAIN m1.inner)
    IN  IF source \notin DOMAIN m1.outer[o]
        THEN [m1 EXCEPT !.outer[o] = (source :> i1) @@ @, !.inner = (i1 :> {}) @@ @]
        ELSE m1

\* AddDep that keeps a dependency registered again as a further entry
AddDepDuplicate(m, g, source, newDependency) ==
    LET m1 == AddNode(m, g, source)
        i  == m1.outer[m1.dep[g]][source]
    IN  IF newDependency \in m1.inner[i]
        THEN [m1 EXCEPT !.inner[i] = @ \cup {newDependency \o "#2"}]
        ELSE [m1 EXCEPT !.inner[i] = @ \cup {newDependency}]

\* AddDep that makes the dependency a node too
AddDepBoth(m, g, source, newDependency) ==
    LET m1 == AddNode(AddNode(m, g, source), g, newDependency)
    IN  [m1 EXCEPT !.inner[m1.outer[m1.dep[g]][source]] = @ \cup {newDependency}]

AddDep(m, g, source, newDependency) ==
    LET m1 == AddNode(m, g, source)
    IN  [m1 EXCEPT !.inner[m1.outer[m1.dep[g]][source]] = @ \cup {newDependency}]

\* ResolveDep without the loop over the other nodes' dependencies
ResolveDepNodeOnly(m, g, resolvedDependency) ==
    IF m.dep[g] = NilMap THEN m
    ELSE [m EXCEPT !.outer[m.dep[g]] = Restrict(@, DOMAIN @ \ {resolvedDependency})]

\* ResolveDep without the delete of the node itself
ResolveDepKeepsNode(m, g, resolvedDependency) ==
    IF m.dep[g] = NilMap THEN m
    ELSE [m EXCEPT !.inner = [i \in DOMAIN @ |->
              IF i \in Range(m.outer[m.dep[g]]) THEN @[i] \ {resolvedDependency} ELSE @[i]]]

ResolveDep(m, g, resolvedDependency) ==
    IF m.dep[g] = NilMap THEN m
    ELSE LET o  == m.dep[g]
             m1 == [m EXCEPT !.inner = [i \in DOMAIN @ |->
                        IF i \in Range(m.outer[o]) THEN @[i] \ {resolvedDependency} ELSE @[i]]]
         IN  [m1 EXCEPT !.outer[o] = Restrict(@, DOMAIN @ \ {resolvedDependency})]

\* fmt.Sprintf("%q", s)
Quote(s) == "\"" \o s \o "\""

\* strings.Join(elems, sep)
RECURSIVE Join(_, _)
Join(elems, sep) ==
    IF Len(elems) = 0 THEN ""
    ELSE IF Len(elems) = 1 THEN elems[1]
    ELSE elems[1] \o sep \o Join(Tail(elems), sep)

\* An error value; isNil for the nil error.  The error of GetHeadNodes is kept
\* as the format's fixed text and what the two loops put in waitList: Go
\* iterates a map in no fixed order, and ErrorStrings gives the message for
\* every order.
NoError == [isNil |-> TRUE, text |-> "", waitList |-> {}]

Errorf(text, waitList) == [isNil |-> FALSE, text |-> text, waitList |-> waitList]

\* WaitList that formats the node where the dependency belongs
WaitListSelf(deps) ==
    {[k |-> Quote(k), depsList |-> {Quote(k) : dep \in deps[k]}] : k \in DOMAIN deps}

\* what the loops over d.Dependencies collect: for every node k its quoted
\* name and the quoted names of its dependencies
WaitList(deps) ==
    {[k |-> Quote(k), depsList |-> {Quote(dep) : dep \in deps[k]}] : k \in DOMAIN deps}

\* fmt.Sprintf(`%q depends on %s`, k, strings.Join(depsList, `, `)), for every
\* order of depsList
WaitItems(item) ==
    {item.k \o " depends on " \o Join(depsList, ", ") : depsList \in Orderings(item.depsList)}

\* the waitList slices the loops can build, over the items still to visit
RECURSIVE WaitLists(_)
WaitLists(items) ==
    IF items = {} THEN {<<>>}
    ELSE UNION {{<<waitItem>> \o rest : waitItem \in WaitItems(item),
                                         rest \in WaitLists(items \ {item})}
                : item \in items}

\* err.Error(): the message, for every order of iteration
ErrorStrings(err) == {err.text \o Join(waitList, "; ") : waitList \in WaitLists(err.waitList)}

\* GetHeadNodes with len(deps) <= 1 for len(deps) == 0
GetHeadNodesOneDep(deps) ==
    LET heads == {node \in DOMAIN deps : Cardinality(deps[node]) <= 1}
    IN  IF Cardinality(heads) = 0 /\ Cardinality(DOMAIN deps) /= 0
        THEN {[kind |-> "GetHeadNodes", headNodes |-> <<>>,
               err |-> Errorf("no config options exist with 0 dependencies - ",
                              WaitList(deps))]}
        ELSE {[kind |-> "GetHeadNodes", headNodes |-> headNodes, err |-> NoError] :
                 headNodes \in Orderings(heads)}

\* GetHeadNodes without the test len(d.Dependencies) != 0
GetHeadNodesNoEmptyTest(deps) ==
    LET heads == {node \in DOMAIN deps : Cardinality(deps[node]) = 0}
    IN  IF Cardinality(heads) = 0
        THEN {[kind |-> "GetHeadNodes", headNodes |-> <<>>,
               err |-> Errorf("no config options exist with 0 dependencies - ",
                              WaitList(deps))]}
        ELSE {[kind |-> "GetHeadNodes", headNodes |-> headNodes, err |-> NoError] :
                 headNodes \in Orderings(heads)}

\* the results GetHeadNodes can return for d.Dependencies = deps; headNodes
\* comes in the order the map was iterated
GetHeadNodes(deps) ==
    LET heads == {node \in DOMAIN deps : Cardinality(deps[node]) = 0}
    IN  IF Cardinality(heads) = 0 /\ Cardinality(DOMAIN deps) /= 0
        THEN {[kind |-> "GetHeadNodes", headNodes |-> <<>>,
               err |-> Errorf("no config options exist with 0 dependencies - ",
                              WaitList(deps))]}
        ELSE {[kind |-> "GetHeadNodes", headNodes |-> headNodes, err |-> NoError] :
                 headNodes \in Orderings(heads)}

\* encoding/json coerces a string to valid UTF-8 as it writes it
ToValidUTF8(s) == IF s = InvalidUTF8 THEN ReplacementChar ELSE s

\* the keys of a map in the order encoding/json writes them
SortedKeys(S) == SelectSeq(ByteOrder, LAMBDA s : s \in S)

\* enc.Encode(d.Dependencies): the JSON text, as its members in order
Encode(m, g) ==
    IF m.dep[g] = NilMap THEN [null |-> TRUE, members |-> <<>>]
    ELSE LET deps == View(m, g)
             keys == SortedKeys(DOMAIN deps)
         IN  [null |-> FALSE,
              members |-> [i \in 1..Len(keys) |->
                  [key |-> ToValidUTF8(keys[i]),
                   value |-> LET ds == SortedKeys(deps[keys[i]])
                             IN  [j \in 1..Len(ds) |-> ToValidUTF8(ds[j])]]]]

\* dec.Decode(&depCopy), member by member into the fresh map o; a key met
\* again replaces the entry decoded before
RECURSIVE DecodeMembers(_, _, _)
DecodeMembers(m, o, members) ==
    IF members = <<>> THEN m
    ELSE LET mb == Head(members)
             i  == Fresh(DOMAIN m.inner)
         IN  DecodeMembers([m EXCEPT !.outer[o] = (mb.key :> i) @@ @,
                                     !.inner = (i :> Range(mb.value)) @@ @],
                           o, Tail(members))

\* returns a deep copy of the dep graph (d is g, the copy is assigned to "to")
Copy(m, g, to) ==
    LET json == Encode(m, g)
        o    == Fresh(DOMAIN m.outer)
    IN  IF json.null THEN [m EXCEPT !.dep[to] = NilMap]
        ELSE DecodeMembers([m EXCEPT !.dep[to] = o, !.outer = (o :> EmptyMap) @@ @],
                           o, json.members)

\* the error Copy returns: a map of strings always encodes, and what was
\* encoded always decodes
CopyErr(m, g) == NoError

----------------------------------------------------------------------------
(* The redactor store of kotsadm/pkg/redact: values *)

\* the processes that call the redact package at the same time
Procs == {"p1", "p2"}

\* number of rules of a combined redact spec
MaxRules == 2

\* the zero time.Time
ZeroTime == 0

\* the characters of the names below that \w and \d match
WordChars == {"a", "b", "c", "d", "e", "k", "m", "o", "r", "s", "t", "_",
              "0", "1", "2", "3", "4", "5", "6", "7", "8", "9"}

\* a character the expression [^\w\d-_] does not match
IsSlugChar(c) == c \in WordChars \cup {"-", "_"}

\* strings.ReplaceAll(s, old, new), old and new of one character
ReplaceAll(s, old, new) == [i \in DOMAIN s |-> IF s[i] = old THEN new ELSE s[i]]

\* a string is the sequence of its characters
getSlug(name) == SelectSeq(ReplaceAll(name, " ", "-"), IsSlugChar)

DigitChars == <<"0", "1", "2", "3", "4", "5", "6", "7", "8", "9">>

\* the decimal digits of %d
RECURSIVE Itoa(_)
Itoa(n) ==
    IF n < Len(DigitChars) THEN <<DigitChars[n + 1]>>
    ELSE Itoa(n \div Len(DigitChars)) \o <<DigitChars[(n % Len(DigitChars)) + 1]>>

\* "kotsadm-redact", the key of the combined redact spec
LegacyKey == <<"k", "o", "t", "s", "a", "d", "m", "-", "r", "e", "d", "a", "c", "t">>

\* fmt.Sprintf("redactor-%d", idx)
RedactorName(idx) == <<"r", "e", "d", "a", "c", "t", "o", "r", "-">> \o Itoa(idx)

\* the names the rules and the requests carry: none, "a b" and "a-b"
NoName == <<>>

NameSpaced == <<"a", " ", "b">>

NameHyphened == <<"a", "-", "b">>

RuleNames == {NoName, NameSpaced, NameHyphened}

\* a nil *v1beta1.Redact
NilRedact == [isNil |-> TRUE, Name |-> NoName, Body |-> ZeroTime]

\* a v1beta1.Redact: its name, and its removals as one value
Redact(name, body) == [isNil |-> FALSE, Name |-> name, Body |-> body]

\* RedactorList{}
NoMetadata ==
    [Name |-> NoName, Slug |-> NoName, Created |-> ZeroTime, Updated |-> ZeroTime,
     Enabled |-> FALSE, Description |-> ""]

\* RedactorMetadata{}
NoEntry == [Metadata |-> NoMetadata, Redact |-> Redact(NoName, ZeroTime)]

\* a document: a Redactor with its rules, an object of another kind, or bytes
\* the deserializer rejects
Document(kind, redactors) == [kind |-> kind, Redactors |-> redactors]

NoDocument == Document("none", <<>>)

\* the rules a combined spec can hold at position i: nil, or a rule with one of the names
RulesAt(i) == {NilRedact} \cup {Redact(n, i) : n \in RuleNames}

\* the sequences of at most MaxRules rules
RuleLists ==
    UNION {{rs \in [1..k -> UNION {RulesAt(i) : i \in 1..MaxRules}] :
                \A i \in 1..k : rs[i] \in RulesAt(i)} : k \in 0..MaxRules}

LegacyDocs ==
    {Document("Redactor", rs) : rs \in RuleLists}
        \cup {Document("Collector", <<>>), Document("garbage", <<>>)}

\* json.Marshal(redactorEntry), and a document as the string a key holds
Marshal(entry) == [kind |-> "json", entry |-> entry, doc |-> NoDocument]

YamlValue(doc) == [kind |-> "yaml", entry |-> NoEntry, doc |-> doc]

\* json.Unmarshal([]byte(v), &redactorEntry): only JSON parses
Unmarshal(v) ==
    IF v.kind = "json" THEN [err |-> "", entry |-> v.entry]
    ELSE [err |-> "invalid character", entry |-> NoEntry]

\* existingMap[k] = v and delete(existingMap, k)
Put(data, k, v) == (k :> v) @@ data

Delete(data, k) == Restrict(data, DOMAIN data \ {k})

\* the loop of splitRedactors over redactor.Spec.Redactors, from index idx
RECURSIVE SplitFrom(_, _, _, _)
SplitFrom(redactors, idx, existingMap, t) ==
    IF idx >= Len(redactors) THEN existingMap
    ELSE LET redactorSpec == redactors[idx + 1]
             redactorName == IF redactorSpec.Name /= NoName THEN redactorSpec.Name
                             ELSE RedactorName(idx)
             newRedactor  == [Metadata |-> [Name |-> redactorName,
                                            Slug |-> getSlug(redactorName),
                                            Created |-> t, Updated |-> t,
                                            Enabled |-> TRUE, Description |-> ""],
                              Redact |-> [redactorSpec EXCEPT !.Name = redactorName]]
         IN  IF redactorSpec.isNil THEN SplitFrom(redactors, idx + 1, existingMap, t)
             ELSE SplitFrom(redactors, idx + 1,
                            Put(existingMap, newRedactor.Metadata.Slug, Marshal(newRedactor)), t)

\* splitRedactors that leaves the combined key in the map
splitRedactorsKeepsKey(spec, existingMap, t) ==
    IF spec.kind /= "yaml" \/ spec.doc.kind = "garbage"
    THEN [newMap |-> EmptyMap, err |-> "deserialize combined redact spec"]
    ELSE [newMap |-> SplitFrom(spec.doc.Redactors, 0, existingMap, t), err |-> ""]

\* splitRedactors(spec, existingMap) at time t.  An object that is no
\* Redactor gives errors.Wrap(nil, ...), which is nil, with a nil map.
splitRedactors(spec, existingMap, t) ==
    IF spec.kind /= "yaml" \/ spec.doc.kind = "garbage"
    THEN [newMap |-> EmptyMap, err |-> "deserialize combined redact spec"]
    ELSE IF spec.doc.kind /= "Redactor"
    THEN [newMap |-> EmptyMap, err |-> ""]
    ELSE [newMap |-> Delete(SplitFrom(spec.doc.Redactors, 0, existingMap, t), LegacyKey),
          err |-> ""]

----------------------------------------------------------------------------
(* The redactor store: the cluster API and the calls *)

\* a ConfigMap as a client holds it: Data and metadata.resourceVersion
Object(data, rv) == [data |-> data, rv |-> rv]

NoObject == Object(EmptyMap, ZeroTime)

\* no ConfigMap "kotsadm-redact" in the namespace
NoCluster == [exists |-> FALSE, data |-> EmptyMap, rv |-> ZeroTime]

\* ConfigMaps(namespace).Get("kotsadm-redact")
ApiGet(c) == [found |-> c.exists, obj |-> Object(c.data, c.rv)]

\* ConfigMaps(namespace).Create(&newMap)
ApiCreate(c, data) ==
    IF c.exists THEN [cluster |-> c, err |-> "AlreadyExists", obj |-> NoObject]
    ELSE [cluster |-> [exists |-> TRUE, data |-> data, rv |-> c.rv + 1], err |-> "",
          obj |-> Object(data, c.rv + 1)]

\* ConfigMaps(namespace).Update(configMap): an object whose resourceVersion
\* is not the stored one is refused
ApiUpdate(c, configMap) ==
    IF ~c.exists THEN [cluster |-> c, err |-> "NotFound", obj |-> NoObject]
    ELSE IF configMap.rv /= c.rv THEN [cluster |-> c, err |-> "Conflict", obj |-> NoObject]
    ELSE [cluster |-> [c EXCEPT !.data = configMap.data, !.rv = c.rv + 1], err |-> "",
          obj |-> Object(configMap.data, c.rv + 1)]

\* writeConfigmap that sends the Data in a ConfigMap it has just fetched
writeConfigmapRefetched(c, configMap) ==
    LET r == ApiUpdate(c, [configMap EXCEPT !.rv = c.rv])
    IN  IF r.err /= "" THEN [r EXCEPT !.err = "failed to update configmap"] ELSE r

\* writeConfigmap(configMap)
writeConfigmap(c, configMap) ==
    LET r == ApiUpdate(c, configMap)
    IN  IF r.err /= "" THEN [r EXCEPT !.err = "failed to update configmap"] ELSE r

\* what a call returns: its error, "" for nil, and its value
Result(err, list, entry) == [err |-> err, list |-> list, entry |-> entry]

Failure(err) == Result(err, <<>>, NoEntry)

NoResult == Result("", <<>>, NoEntry)

\* the loop of GetRedactInfo over configmap.Data, in any order of the keys
ListResults(data) ==
    IF \E k \in DOMAIN data : Unmarshal(data[k]).err /= ""
    THEN {Failure("unable to parse key")}
    ELSE {Result("", [i \in DOMAIN keys |-> Unmarshal(data[keys[i]]).entry.Metadata], NoEntry) :
              keys \in Orderings(DOMAIN data)}

\* where a call stands once its ConfigMap is fetched: returned, or about to
\* write configMap
Returned(result) == [pc |-> "done", obj |-> NoObject, result |-> result]

ToWrite(configMap, result) == [pc |-> "write", obj |-> configMap, result |-> result]

\* GetRedactInfo from the fetched configmap to the write or the return
GetRedactInfoPlan(configmap, t) ==
    IF LegacyKey \in DOMAIN configmap.data
    THEN LET s == splitRedactors(configmap.data[LegacyKey], configmap.data, t)
         IN  IF s.err /= "" THEN {Returned(Failure("failed to split combined redactors"))}
             ELSE {ToWrite([configmap EXCEPT !.data = s.newMap], NoResult)}
    ELSE {Returned(r) : r \in ListResults(configmap.data)}

\* a test of a slug that finds no key
SlugNeverExists(data, slug) == FALSE

\* _, ok := configMap.Data[slug]
SlugExists(data, slug) == slug \in DOMAIN data

\* the arguments of SetRedactYaml; yamlBytes parse to a v1beta1.Redact or not
\* at all
Args(name, slug, description, enabled, newRedact, yamlValid, yamlName) ==
    [name |-> name, slug |-> slug, description |-> description, enabled |-> enabled,
     newRedact |-> newRedact, yamlValid |-> yamlValid, yamlName |-> yamlName]

NoArgs == Args(NoName, NoName, "", FALSE, FALSE, TRUE, NoName)

\* the body the yamlBytes of a request hold
RequestBody == 9

\* the end of SetRedactYaml: the metadata of the request, json.Marshal, and
\* the entry in configMap.Data[slug]
SetRedactYamlEntry(a, configMap, data, slug, specName, metadata, t) ==
    LET redactorEntry ==
            [Metadata |-> [metadata EXCEPT !.Enabled = a.enabled,
                                           !.Description = a.description,
                                           !.Updated = t],
             Redact |-> Redact(specName, RequestBody)]
    IN  ToWrite([configMap EXCEPT !.data = Put(data, slug, Marshal(redactorEntry))],
                Result("", <<>>, redactorEntry))

\* SetRedactYaml from the fetched configMap to the write or the return
SetRedactYamlPlan(a, configMap, t) ==
    LET data == configMap.data
    IN  IF ~SlugExists(data, a.slug) \/ a.newRedact
        THEN LET fromSlug == a.yamlName = NoName /\ a.name = NoName
                 specName == IF fromSlug THEN a.slug
                             ELSE IF a.name /= NoName THEN a.name ELSE a.yamlName
                 slug     == IF fromSlug THEN a.slug ELSE getSlug(specName)
             IN  IF SlugExists(data, slug)
                 THEN Returned(Failure("refusing to create new redact spec"))
                 ELSE SetRedactYamlEntry(a, configMap, data, slug, specName,
                          [NoMetadata EXCEPT !.Name = specName, !.Slug = slug, !.Created = t],
                          t)
        ELSE LET u        == Unmarshal(data[a.slug])
                 specName == IF a.name /= a.yamlName /\ a.name /= NoName THEN a.name
                             ELSE a.yamlName
                 changing == a.slug /= getSlug(specName) /\ specName /= NoName
                 slug     == IF changing THEN getSlug(specName) ELSE a.slug
                 metadata == IF changing
                             THEN [u.entry.Metadata EXCEPT !.Slug = slug, !.Name = specName]
                             ELSE u.entry.Metadata
             IN  IF u.err /= "" THEN Returned(Failure("unable to parse redactor"))
                 ELSE IF changing /\ SlugExists(data, getSlug(specName))
                 THEN Returned(Failure("refusing to change slug"))
                 ELSE SetRedactYamlEntry(a, configMap,
                          IF changing THEN Delete(data, a.slug) ELSE data, slug,
                          IF specName = NoName THEN slug ELSE specName,
                          IF specName = NoName THEN [metadata EXCEPT !.Name = slug]
                          ELSE metadata,
                          t)

\* DeleteRedact from the fetched configMap to the write
DeleteRedactPlan(slug, configMap) ==
    ToWrite([configMap EXCEPT !.data = Delete(@, slug)], NoResult)

\* the three calls, from the fetched ConfigMap on
Plans(op, a, configMap, t) ==
    IF op = "GetRedactInfo" THEN GetRedactInfoPlan(configMap, t)
    ELSE IF op = "SetRedactYaml" THEN {SetRedactYamlPlan(a, configMap, t)}
    ELSE {DeleteRedactPlan(a.slug, configMap)}

\* a process in no call
IdleCall ==
    [pc |-> "idle", op |-> "none", args |-> NoArgs, read |-> NoObject, obj |-> NoObject,
     over |-> NoObject, wrote |-> FALSE, result |-> NoResult]

\* no ConfigMap, no call
InitStoreIdle ==
    /\ cluster = NoCluster
    /\ running = [p \in Procs |-> IdleCall]
    /\ now = ZeroTime

----------------------------------------------------------------------------
(* The calls *)

\* a GetHeadNodes that takes the head nodes out of the graph as it returns them
GetHeadNodesPop(m, g) ==
    IF m.dep[g] = NilMap THEN m
    ELSE [m EXCEPT !.outer[m.dep[g]] =
            Restrict(@, {k \in DOMAIN @ : m.inner[@[k]] /= {}})]

\* the maps after d.GetHeadNodes(): it reads Dependencies and writes to no map
GetHeadNodesMem(m, g) == m

NoReturn == [kind |-> "none", headNodes |-> <<>>, err |-> NoError]

NoCall == [op |-> "new", g |-> "d", source |-> "", dep |-> ""]

\* depGraph{}: no map yet, nothing parsed, nothing resolved
InitPass(at) ==
    /\ pc = at
    /\ configItems = <<>>
    /\ sawRenderErr = FALSE
    /\ parseErr = NoError
    /\ recorded = EmptyMap
    /\ iter = 0
    /\ headIter = EmptyMap
    /\ resolvedIter = EmptyMap
    /\ resolveCount = EmptyMap

InitGraph ==
    /\ mem = [dep |-> [g \in Graphs |-> NilMap], outer |-> EmptyMap, inner |-> EmptyMap]
    /\ copied = FALSE
    /\ last = NoCall
    /\ pre = [g \in Graphs |-> EmptyMap]
    /\ ret = NoReturn
    /\ nops = 0

\* no schema is handed over whole, and the redactor store is left alone
InitExt ==
    /\ configGroups = <<>>
    /\ InitStoreIdle

Init == InitGraph /\ InitPass("api") /\ InitExt

Callable == {"d"} \cup (IF copied THEN {"depCopy"} ELSE {})

Call(op, g, source, dep, m) ==
    /\ nops < MaxOps
    /\ nops' = nops + 1
    /\ last' = [op |-> op, g |-> g, source |-> source, dep |-> dep]
    /\ pre' = Views(mem)
    /\ mem' = Collect(m)
    /\ UNCHANGED <<passVars, extVars>>

CallAddNode ==
    \E g \in Callable, source \in Strings :
        /\ Call("AddNode", g, source, "", AddNode(mem, g, source))
        /\ ret' = NoReturn
        /\ UNCHANGED copied

CallAddDep ==
    \E g \in Callable, source \in Strings, dep \in Strings :
        /\ Call("AddDep", g, source, dep, AddDep(mem, g, source, dep))
        /\ ret' = NoReturn
        /\ UNCHANGED copied

CallResolveDep ==
    \E g \in Callable, dep \in AllStrings :
        /\ Call("ResolveDep", g, "", dep, ResolveDep(mem, g, dep))
        /\ ret' = NoReturn
        /\ UNCHANGED copied

CallGetHeadNodes ==
    \E g \in Callable :
        /\ Call("GetHeadNodes", g, "", "", GetHeadNodesMem(mem, g))
        /\ ret' \in GetHeadNodes(View(mem, g))
        /\ UNCHANGED copied

CallCopy ==
    /\ ~copied
    /\ Call("Copy", "d", "", "", Copy(mem, "d", "depCopy"))
    /\ ret' = [kind |-> "Copy", headNodes |-> <<>>, err |-> CopyErr(mem, "d")]
    /\ copied' = TRUE

Next ==
    \/ CallAddNode
    \/ CallAddDep
    \/ CallResolveDep
    \/ CallGetHeadNodes
    \/ CallCopy

Spec == Init /\ [][Next]_vars

----------------------------------------------------------------------------
(* The discovery pass: ParseConfigGroup *)

\* the names configuration items take, in declaration order
NameList == <<"A", "B", "C", "D", "E">>

\* a name no configuration item declares
Undeclared == "Z"

\* the names a template can pass to a config function
RefNames == {NameList[i] : i \in 1..MaxItems} \cup {Undeclared}

\* the five config functions of the recording function table
FuncNames == {"ConfigOption", "ConfigOptionIndex", "ConfigOptionData",
              "ConfigOptionEquals", "ConfigOptionNotEquals"}

\* a config function that records its further arguments as dependencies too
RECURSIVE addDepFuncAll(_, _, _, _)
addDepFuncAll(m, parent, dep, rest) ==
    IF rest = <<>> THEN [mem |-> AddDep(m, "d", parent, dep), result |-> dep]
    ELSE [mem |-> addDepFuncAll(AddDep(m, "d", parent, dep), parent, Head(rest), Tail(rest)).mem,
          result |-> dep]

\* a config function that records the dependency the other way round
addDepFuncReversed(m, parent, dep, rest) ==
    [mem |-> AddDep(m, "d", dep, parent), result |-> dep]

\* a config function that makes the referenced name a node as well
addDepFuncNode(m, parent, dep, rest) ==
    [mem |-> AddDep(AddNode(m, "d", dep), "d", parent, dep), result |-> dep]

\* addDepFunc(dep, _ ...string), closed over d and parent
addDepFunc(m, parent, dep, rest) == [mem |-> AddDep(m, "d", parent, dep), result |-> dep]

\* d.funcMap(parent): every config function is addDepFunc
funcMap(parent) == [fn \in FuncNames |-> parent]

\* A template, as the rendering primitive runs it: the config function calls
\* it makes in order, and whether the render then ends in an error (a parse
\* error makes no call at all).
Templates ==
    {[calls |-> c, fails |-> f] :
        c \in {<<>>} \cup {<<[fn |-> "ConfigOption", dep |-> r, rest |-> <<>>]>> : r \in RefNames},
        f \in BOOLEAN}

\* depBuilder.String(text) with Functs = functs: runs the template's calls
RECURSIVE RunCalls(_, _, _)
RunCalls(m, functs, calls) ==
    IF calls = <<>> THEN m
    ELSE RunCalls(addDepFunc(m, functs[Head(calls).fn], Head(calls).dep, Head(calls).rest).mem,
                  functs, Tail(calls))

\* a template naming a function the table lacks does not parse, and runs nothing
BuilderString(m, functs, tmpl) ==
    IF \E i \in DOMAIN tmpl.calls : tmpl.calls[i].fn \notin DOMAIN functs
    THEN [mem |-> m, err |-> Errorf("template", {})]
    ELSE [mem |-> RunCalls(m, functs, tmpl.calls),
          err |-> IF tmpl.fails THEN Errorf("template", {}) ELSE NoError]

\* the loop body returning the first error of its two renders
KeptErrFirst(defaultErr, valueErr) == IF ~defaultErr.isNil THEN defaultErr ELSE valueErr

\* the error the loop body keeps of the two renders: both are discarded
KeptErr(defaultErr, valueErr) == NoError

\* the body of the loop over the items, for one configItem
ParseConfigItem(m, name, default, value) ==
    LET m1 == AddNode(m, "d", name)
        r1 == BuilderString(m1, funcMap(name), default)
        r2 == BuilderString(r1.mem, funcMap(name), value)
    IN  [mem |-> r2.mem, err |-> KeptErr(r1.err, r2.err),
         failed |-> ~r1.err.isNil \/ ~r2.err.isNil]

\* One turn of the loops of ParseConfigGroup.  The two loops visit the items
\* of all groups in order; the schema is read one item per turn.
ParseNextItem ==
    /\ pc = "discover"
    /\ Len(configItems) < MaxItems
    /\ \E default \in Templates, value \in Templates :
        LET name == NameList[Len(configItems) + 1]
            r    == ParseConfigItem(mem, name, default, value)
        IN  /\ mem' = Collect(r.mem)
            /\ configItems' = Append(configItems, name)
            /\ sawRenderErr' = (sawRenderErr \/ r.failed)
            /\ last' = [op |-> "ParseConfigItem", g |-> "d", source |-> name, dep |-> ""]
            /\ pre' = Views(mem)
            /\ IF r.err.isNil
               THEN UNCHANGED <<pc, parseErr>>
               ELSE pc' = "parseFailed" /\ parseErr' = r.err
    /\ UNCHANGED <<copied, ret, nops, recorded, iter, headIter, resolvedIter, resolveCount>>
    /\ UNCHANGED extVars

\* return nil
ParseReturn ==
    /\ pc = "discover"
    /\ pc' = "resolve"
    /\ parseErr' = NoError
    /\ recorded' = View(mem, "d")
    /\ last' = [op |-> "ParseConfigGroup", g |-> "d", source |-> "", dep |-> ""]
    /\ pre' = Views(mem)
    /\ UNCHANGED <<mem, copied, ret, nops, configItems, sawRenderErr, iter, headIter,
                   resolvedIter, resolveCount>>
    /\ UNCHANGED extVars

----------------------------------------------------------------------------
(* The resolution pass *)

\* headNodes, err = deps.GetHeadNodes(): a failure ends the pass, no head
\* node ends it with the graph empty, head nodes go on to be rendered
ResolveGetHeadNodes ==
    /\ pc = "resolve"
    /\ \E r \in GetHeadNodes(View(mem, "d")) :
        /\ ret' = r
        /\ IF ~r.err.isNil THEN pc' = "failed"
           ELSE IF Len(r.headNodes) = 0 THEN pc' = "done"
           ELSE pc' = "render"
        /\ headIter' = [n \in Range(r.headNodes) |-> iter + 1] @@ headIter
    /\ last' = [op |-> "GetHeadNodes", g |-> "d", source |-> "", dep |-> ""]
    /\ pre' = Views(mem)
    /\ mem' = Collect(GetHeadNodesMem(mem, "d"))
    /\ UNCHANGED <<copied, nops, configItems, sawRenderErr, parseErr, recorded, iter,
                   resolvedIter, resolveCount>>
    /\ UNCHANGED extVars

\* deps.ResolveDep(node) for each of the head nodes in turn
RECURSIVE ResolveAll(_, _)
ResolveAll(m, headNodes) ==
    IF headNodes = <<>> THEN m
    ELSE ResolveAll(ResolveDep(m, "d", Head(headNodes)), Tail(headNodes))

\* every head node is rendered with the full function table, its value is
\* stored, and it is resolved in the graph
ResolveHeadNodes ==
    /\ pc = "render"
    /\ pc' = "resolve"
    /\ iter' = iter + 1
    /\ mem' = Collect(ResolveAll(mem, ret.headNodes))
    /\ resolvedIter' = [n \in Range(ret.headNodes) |-> iter + 1] @@ resolvedIter
    /\ resolveCount' = [n \in Range(ret.headNodes) \cup DOMAIN resolveCount |->
                          (IF n \in DOMAIN resolveCount THEN resolveCount[n] ELSE 0)
                          + (IF n \in Range(ret.headNodes) THEN 1 ELSE 0)]
    /\ last' = [op |-> "ResolveHeadNodes", g |-> "d", source |-> "", dep |-> ""]
    /\ pre' = Views(mem)
    /\ UNCHANGED <<copied, ret, nops, configItems, sawRenderErr, parseErr, recorded,
                   headIter>>
    /\ UNCHANGED extVars

InitResolve == InitGraph /\ InitPass("discover") /\ InitExt

NextResolve ==
    \/ ParseNextItem
    \/ ParseReturn
    \/ ResolveGetHeadNodes
    \/ ResolveHeadNodes

SpecResolve == InitResolve /\ [][NextResolve]_vars

----------------------------------------------------------------------------
(* The function table of funcMap, called directly *)

\* the further arguments a template passes after the referenced name
ExtraArgs == {<<>>, <<"B">>}

\* the item names and referenced names of the calls
ItemStrings == {"A", "B"}

\* d.funcMap(parent)[fn](dep, rest...)
CallConfigFunc ==
    \E fn \in FuncNames, parent \in ItemStrings, dep \in ItemStrings, rest \in ExtraArgs :
        LET r == addDepFunc(mem, funcMap(parent)[fn], dep, rest)
        IN  /\ nops < MaxOps
            /\ nops' = nops + 1
            /\ last' = [op |-> fn, g |-> "d", source |-> parent, dep |-> dep, rest |-> rest]
            /\ pre' = Views(mem)
            /\ mem' = Collect(r.mem)
            /\ ret' = [kind |-> "string", str |-> r.result, headNodes |-> <<>>,
                       err |-> NoError]
            /\ UNCHANGED <<copied, passVars, extVars>>

NextFuncMap ==
    \/ CallConfigFunc
    \/ CallAddNode
    \/ CallResolveDep

SpecFuncMap == Init /\ [][NextFuncMap]_vars

----------------------------------------------------------------------------
(* ParseConfigGroup on a schema handed over whole *)

\* a function no table of the discovery pass holds
UnknownFunc == "Now"

\* the names of the items of the schemas below: one group holds the first
\* item, a second group holds the other two
SchemaNames == <<"A", "B", "C">>

\* {{repl ConfigOption "r"}}, {{repl ConfigOptionEquals "r" "1"}} and a
\* template calling a function the table lacks
SchemaTemplates ==
    {[calls |-> c, fails |-> FALSE] :
        c \in {<<>>}
           \cup {<<[fn |-> "ConfigOption", dep |-> r, rest |-> <<>>]>> : r \in Range(SchemaNames)}
           \cup {<<[fn |-> "ConfigOptionEquals", dep |-> r, rest |-> <<"1">>]>> :
                     r \in Range(SchemaNames)}
           \cup {<<[fn |-> UnknownFunc, dep |-> "A", rest |-> <<>>]>>}}

NoTemplate == [calls |-> <<>>, fails |-> FALSE]

ConfigItem(name, default) == [Name |-> name, Default |-> default, Value |-> NoTemplate]

Schemas ==
    {<< <<ConfigItem(SchemaNames[1], t1)>>,
        <<ConfigItem(SchemaNames[2], t2), ConfigItem(SchemaNames[3], t3)>> >> :
        t1 \in SchemaTemplates, t2 \in SchemaTemplates, t3 \in SchemaTemplates}

\* for _, item := range configGroup.Items
RECURSIVE ParseItems(_, _)
ParseItems(m, items) ==
    IF items = <<>> THEN [mem |-> m, err |-> NoError]
    ELSE LET r == ParseConfigItem(m, Head(items).Name, Head(items).Default, Head(items).Value)
         IN  IF ~r.err.isNil THEN [mem |-> r.mem, err |-> r.err]
             ELSE ParseItems(r.mem, Tail(items))

\* d.ParseConfigGroup(configGroups)
RECURSIVE ParseConfigGroup(_, _)
ParseConfigGroup(m, groups) ==
    IF groups = <<>> THEN [mem |-> m, err |-> NoError]
    ELSE LET r == ParseItems(m, Head(groups))
         IN  IF ~r.err.isNil THEN r ELSE ParseConfigGroup(r.mem, Tail(groups))

RECURSIVE ItemNames(_)
ItemNames(groups) ==
    IF groups = <<>> THEN <<>>
    ELSE [i \in DOMAIN Head(groups) |-> Head(groups)[i].Name] \o ItemNames(Tail(groups))

\* the whole of ParseConfigGroup, on the schema in configGroups
CallParseConfigGroup ==
    /\ pc = "discover"
    /\ LET r == ParseConfigGroup(mem, configGroups)
       IN  /\ mem' = Collect(r.mem)
           /\ parseErr' = r.err
           /\ pc' = IF r.err.isNil THEN "resolve" ELSE "parseFailed"
           /\ recorded' = View(r.mem, "d")
    /\ configItems' = ItemNames(configGroups)
    /\ last' = [op |-> "ParseConfigGroup", g |-> "d", source |-> "", dep |-> ""]
    /\ pre' = Views(mem)
    /\ UNCHANGED <<copied, ret, nops, sawRenderErr, iter, headIter, resolvedIter,
                   resolveCount>>
    /\ UNCHANGED extVars

InitSchema ==
    /\ InitGraph
    /\ InitPass("discover")
    /\ configGroups \in Schemas
    /\ InitStoreIdle

NextSchema ==
    \/ CallParseConfigGroup
    \/ ResolveGetHeadNodes
    \/ ResolveHeadNodes

SpecSchema == InitSchema /\ [][NextSchema]_vars

----------------------------------------------------------------------------
(* The redactor store: the steps of the calls *)

\* the ConfigMaps the calls start from: none, one that holds only the
\* combined spec, and one an earlier GetRedactInfo has split
LegacyStore(doc) == (LegacyKey :> YamlValue(doc))

InitialClusters ==
    {NoCluster}
        \cup {[exists |-> TRUE, data |-> LegacyStore(doc), rv |-> 1] : doc \in LegacyDocs}
        \cup {[exists |-> TRUE,
               data |-> splitRedactors(YamlValue(doc), LegacyStore(doc), 1).newMap,
               rv |-> 2] : doc \in {d \in LegacyDocs : d.kind = "Redactor"}}

\* the names, slugs and yaml names of the requests
RequestNames == {NoName, NameSpaced}

RequestSlugs == {NameHyphened, RedactorName(0)}

RequestYamlNames == {NoName, NameHyphened}

\* the requests: each disables the redactor it names, the split enabling all
Requests ==
    {Args(name, slug, "d", FALSE, newRedact, TRUE, yamlName) :
        name \in RequestNames, slug \in RequestSlugs,
        newRedact \in BOOLEAN, yamlName \in RequestYamlNames}
        \cup {Args(NoName, NameHyphened, "d", FALSE, FALSE, FALSE, NoName)}

\* a call of process p from its start to where plan leaves it
Planned(op, a, configMap, plan) ==
    [pc |-> plan.pc, op |-> op, args |-> a, read |-> configMap, obj |-> plan.obj,
     over |-> NoObject, wrote |-> FALSE, result |-> plan.result]

\* getConfigmap() at the start of a call: the ConfigMap is fetched and the
\* call runs to its write or its return, or no ConfigMap is found and one is
\* to be created
Fetch(p, op, a) ==
    /\ now' = now + 1
    /\ IF ApiGet(cluster).found
       THEN \E plan \in Plans(op, a, ApiGet(cluster).obj, now) :
                running' = [running EXCEPT ![p] = Planned(op, a, ApiGet(cluster).obj, plan)]
       ELSE running' = [running EXCEPT ![p] =
                            [IdleCall EXCEPT !.pc = "create", !.op = op, !.args = a]]
    /\ UNCHANGED <<cluster, graphVars>>

CallGetRedactInfo ==
    \E p \in Procs :
        /\ running[p].pc = "idle"
        /\ Fetch(p, "GetRedactInfo", NoArgs)

\* yaml.Unmarshal fails before any ConfigMap is fetched
CallSetRedactYaml ==
    \E p \in Procs, a \in Requests :
        /\ running[p].pc = "idle"
        /\ IF a.yamlValid THEN Fetch(p, "SetRedactYaml", a)
           ELSE /\ running' = [running EXCEPT ![p] =
                       [IdleCall EXCEPT !.pc = "done", !.op = "SetRedactYaml", !.args = a,
                                        !.result = Failure("unable to parse new redact yaml")]]
                /\ UNCHANGED <<cluster, now, graphVars>>

CallDeleteRedact ==
    \E p \in Procs, slug \in RequestSlugs :
        /\ running[p].pc = "idle"
        /\ Fetch(p, "DeleteRedact", [NoArgs EXCEPT !.slug = slug])

\* getConfigmap() after a Get that found nothing: Create, and the call runs on
\* with the created ConfigMap
CreateConfigmap ==
    \E p \in Procs :
        /\ running[p].pc = "create"
        /\ LET r == ApiCreate(cluster, EmptyMap)
           IN  IF r.err /= ""
               THEN /\ running' = [running EXCEPT ![p].pc = "done",
                           ![p].result = Failure("failed to create kotsadm-redact configMap")]
                    /\ UNCHANGED <<cluster, now>>
               ELSE /\ cluster' = r.cluster
                    /\ now' = now + 1
                    /\ \E plan \in Plans(running[p].op, running[p].args, r.obj, now) :
                           running' = [running EXCEPT ![p] =
                               Planned(running[p].op, running[p].args, r.obj, plan)]
        /\ UNCHANGED graphVars

\* writeConfigmap(configMap) and the return of the call
WriteConfigmap ==
    \E p \in Procs :
        /\ running[p].pc = "write"
        /\ LET r    == writeConfigmap(cluster, running[p].obj)
               over == Object(cluster.data, cluster.rv)
           IN  IF r.err /= ""
               THEN /\ running' = [running EXCEPT ![p].pc = "done", ![p].over = over,
                                                  ![p].result = Failure(r.err)]
                    /\ UNCHANGED cluster
               ELSE /\ cluster' = r.cluster
                    /\ \E result \in (IF running[p].op = "GetRedactInfo"
                                      THEN ListResults(r.obj.data)
                                      ELSE {running[p].result}) :
                           running' = [running EXCEPT ![p].pc = "done", ![p].obj = r.obj,
                                           ![p].over = over, ![p].wrote = TRUE,
                                           ![p].result = result]
        /\ UNCHANGED <<now, graphVars>>

InitRedact ==
    /\ InitGraph
    /\ InitPass("api")
    /\ configGroups = <<>>
    /\ cluster \in InitialClusters
    /\ running = [p \in Procs |-> IdleCall]
    /\ now = 2

NextRedact ==
    \/ CallGetRedactInfo
    \/ CallSetRedactYaml
    \/ CallDeleteRedact
    \/ CreateConfigmap
    \/ WriteConfigmap

SpecRedact == InitRedact /\ [][NextRedact]_vars

----------------------------------------------------------------------------
(* What the claims speak of *)

\* the graph the last call was made on, before and after it
Before == pre[last.g]

After == View(mem, last.g)

\* the other depGraph value, untouched by a call on last.g
Other == CHOOSE g \in Graphs : g /= last.g

\* the nodes of deps with no dependency
Ready(deps) == {n \in DOMAIN deps : deps[n] = {}}

\* the names reached from n along the recorded references, in at most k steps
RECURSIVE Reach(_, _, _)
Reach(deps, from, k) ==
    IF k = 0 THEN from
    ELSE Reach(deps, from \cup UNION {deps[n] : n \in from \cap DOMAIN deps}, k - 1)

\* the names n depends on, directly or through other nodes
DependsOn(deps, n) == Reach(deps, deps[n], Cardinality(DOMAIN deps))

\* no node depends on itself, directly or through other nodes
Acyclic(deps) == \A n \in DOMAIN deps : n \notin DependsOn(deps, n)

\* every name a template referenced is the name of a configuration item
AllDeclared(deps) == \A n \in DOMAIN deps : deps[n] \subseteq DOMAIN deps

\* discovery has returned, so recorded is the graph it built
Discovered == pc \in {"resolve", "render", "done", "failed"}

\* the resolution loop behaves as C1 says: no failure, at most one iteration
\* per item until the graph is empty, and at the end one resolution per item
ResolvesAll ==
    /\ pc /= "failed"
    /\ iter <= Len(configItems)
    /\ (iter = Len(configItems) => DOMAIN View(mem, "d") = {})
    /\ \A n \in DOMAIN resolveCount : resolveCount[n] = 1
    /\ (pc = "done" => DOMAIN resolveCount = Range(configItems))

C2_DependencyResolvedFirst ==
    /\ \A a \in DOMAIN headIter :
          /\ a \in DOMAIN recorded
          /\ \A b \in recorded[a] :
                b \in DOMAIN resolvedIter /\ resolvedIter[b] < headIter[a]
    /\ (last.op = "GetHeadNodes" =>
          \A a \in Range(ret.headNodes) : \A b \in recorded[a] : b \notin pre["d"][a])

\* an item whose template references another has been returned as a head node
C2_Witness ==
    /\ pc = "render"
    /\ \E a \in Range(ret.headNodes) : recorded[a] /= {} /\ a \notin recorded[a]

\* the graph of the two-item cycle
TwoCycle == ("A" :> {"B"}) @@ ("B" :> {"A"})

\* C3: a schema with a two-item cycle fails resolution; the error of
\* GetHeadNodes lists every remaining node with exactly the names it still
\* waits on, and for the cycle of A and B it reads "A" depends on "B" and
\* "B" depends on "A", in either order
C3_CycleError ==
    /\ \A a \in DOMAIN recorded : \A b \in recorded[a] \cap DOMAIN recorded :
          (Discovered /\ a /= b /\ a \in recorded[b]) =>
              pc /= "done" /\ a \notin DOMAIN headIter /\ b \notin DOMAIN headIter
    /\ (pc = "failed" =>
          /\ ~ret.err.isNil
          /\ ret.headNodes = <<>>
          /\ Cardinality(ret.err.waitList) = Cardinality(DOMAIN View(mem, "d"))
          /\ \A n \in DOMAIN View(mem, "d") :
                \E item \in ret.err.waitList :
                    /\ item.k = Quote(n)
                    /\ item.depsList = {Quote(x) : x \in View(mem, "d")[n]}
          /\ (View(mem, "d") = TwoCycle =>
                ErrorStrings(ret.err) =
                    {"no config options exist with 0 dependencies - \"A\" depends on \"B\"; \"B\" depends on \"A\"",
                     "no config options exist with 0 dependencies - \"B\" depends on \"A\"; \"A\" depends on \"B\""}))

\* resolution has failed on the cycle of A and B
C3_Witness == pc = "failed" /\ View(mem, "d") = TwoCycle /\ recorded = TwoCycle

\* C4, the graph after ResolveDep(X): the graph before with X removed as a
\* node and from every dependency set, nothing else changed
C4_Removed ==
    last.op = "ResolveDep" =>
        /\ After = [n \in DOMAIN Before \ {last.dep} |-> Before[n] \ {last.dep}]
        /\ View(mem, Other) = pre[Other]
        /\ last.dep \notin DOMAIN After
        /\ \A n \in DOMAIN After : last.dep \notin After[n]

\* C4, the next call: a GetHeadNodes that follows ResolveDep(X) returns every
\* other node whose dependency set was exactly {X}
C4_HeadNext ==
    (last.op = "ResolveDep" /\ last'.op = "GetHeadNodes" /\ last'.g = last.g) =>
        \A y \in DOMAIN Before \ {last.dep} :
            Before[y] = {last.dep} => y \in Range(ret'.headNodes)

\* C4: ResolveDep(X) yields exactly the previous graph with X removed as a
\* node and from every other node's dependency set, so X appears nowhere
\* afterwards, and a node Y whose dependency set was exactly {X} is returned
\* by the very next GetHeadNodes call
C4_ResolveDep == []C4_Removed /\ [][C4_HeadNext]_vars

\* ResolveDep(X) was called on a graph where X is a node and another node
\* depends on X alone
C4_Witness ==
    /\ last.op = "ResolveDep"
    /\ last.dep \in DOMAIN Before
    /\ \E y \in DOMAIN Before \ {last.dep} : Before[y] = {last.dep}

\* C5: GetHeadNodes returns exactly the nodes whose dependency set is empty,
\* each once; it returns an error if and only if the graph has a node and no
\* node has an empty dependency set; on an empty graph it returns nothing
\* and no error
C5_HeadNodes ==
    last.op = "GetHeadNodes" =>
        /\ Range(ret.headNodes) = Ready(Before)
        /\ Len(ret.headNodes) = Cardinality(Ready(Before))
        /\ (~ret.err.isNil <=> (DOMAIN Before /= {} /\ Ready(Before) = {}))
        /\ (DOMAIN Before = {} => ret.headNodes = <<>> /\ ret.err.isNil)

\* GetHeadNodes was called on a graph with a ready node and a waiting node
C5_Witness ==
    /\ last.op = "GetHeadNodes"
    /\ Ready(Before) /= {}
    /\ Ready(Before) /= DOMAIN Before

\* C6, the second call: AddDep of a pair the graph already holds changes
\* nothing, and GetHeadNodes returns the same
C6_SameGraph ==
    (last.op = "AddDep" /\ last.source \in DOMAIN Before /\ last.dep \in Before[last.source]) =>
        /\ Views(mem) = pre
        /\ GetHeadNodes(After) = GetHeadNodes(Before)

\* C6, the calls that follow AddDep(source, dependency): the same AddDep
\* again leaves the graph as it is, and one ResolveDep(dependency) leaves
\* dependency in no dependency set
C6_Then ==
    /\ (last.op = "AddDep" /\ last' = last) => Views(mem)' = Views(mem)
    /\ (last.op = "AddDep" /\ last'.op = "ResolveDep" /\ last'.g = last.g
            /\ last'.dep = last.dep) =>
          \A n \in DOMAIN After' : last.dep \notin After'[n]

\* C6: AddDep called twice with the same (source, dependency) pair does not
\* duplicate the edge: the graph after the second call equals the graph
\* after the first, GetHeadNodes results are the same, and a single
\* ResolveDep(dependency) afterwards fully clears that edge
C6_AddDepTwice == []C6_SameGraph /\ [][C6_Then]_vars

\* AddDep was called with a pair the graph held, on a node with another
\* dependency
C6_Witness ==
    /\ last.op = "AddDep"
    /\ last.source \in DOMAIN Before
    /\ last.dep \in Before[last.source]
    /\ Before[last.source] /= {last.dep}

\* C7: Copy returns a graph equal to the original, and afterwards AddNode,
\* AddDep and ResolveDep on one of the two never change the other
C7_CopyEqualIndependent ==
    /\ (last.op = "Copy" => View(mem, "depCopy") = pre["d"] /\ View(mem, "d") = pre["d"])
    /\ (last.op \in {"AddNode", "AddDep", "ResolveDep"} => View(mem, Other) = pre[Other])

\* Copy shares no map with the original, and for names that are valid UTF-8
\* the copy is equal to it
CopyIsDeep ==
    /\ (last.op = "Copy" /\ InvalidUTF8 \notin DOMAIN pre["d"] \cup UNION Range(pre["d"]) =>
          View(mem, "depCopy") = pre["d"] /\ View(mem, "d") = pre["d"])
    /\ (last.op \in {"AddNode", "AddDep", "ResolveDep"} => View(mem, Other) = pre[Other])

\* C8: ParseConfigGroup never fails, whatever the templates do, and after it
\* every configuration item is a node of the graph
C8_DiscoveryNeverFails ==
    /\ pc /= "parseFailed"
    /\ parseErr.isNil
    /\ (pc = "discover" => Range(configItems) \subseteq DOMAIN View(mem, "d"))
    /\ (Discovered => Range(configItems) \subseteq DOMAIN recorded)

\* ParseConfigGroup has returned after a render failed, with an item whose
\* templates reference nothing
C8_Witness ==
    /\ last.op = "ParseConfigGroup"
    /\ sawRenderErr
    /\ Len(configItems) >= 2
    /\ \E n \in DOMAIN recorded : recorded[n] = {}

\* C9: AddNode(name) changes nothing when name is a node, keeping its
\* dependency set; when name is absent it adds name with an empty set
C9_AddNode ==
    last.op = "AddNode" =>
        /\ View(mem, Other) = pre[Other]
        /\ IF last.source \in DOMAIN Before THEN After = Before
           ELSE After = (last.source :> {}) @@ Before

\* AddNode was called on a node that has a dependency
C9_Witness ==
    /\ last.op = "AddNode"
    /\ last.source \in DOMAIN Before
    /\ Before[last.source] /= {}

\* C10: AddDep(source, dependency) makes source a node whose dependency set
\* holds dependency; a dependency other than source is a node afterwards
\* exactly when it was before, and every other node keeps its dependency set
C10_AddDep ==
    last.op = "AddDep" =>
        /\ last.source \in DOMAIN After
        /\ last.dep \in After[last.source]
        /\ (last.dep /= last.source =>
              (last.dep \in DOMAIN After <=> last.dep \in DOMAIN Before))
        /\ DOMAIN Before \subseteq DOMAIN After
        /\ \A n \in DOMAIN After \ {last.source} :
              n \in DOMAIN Before /\ After[n] = Before[n]

\* AddDep was called with a dependency that is no node, on a graph with
\* another node that has a dependency
C10_Witness ==
    /\ last.op = "AddDep"
    /\ last.dep \notin DOMAIN After
    /\ \E n \in DOMAIN After \ {last.source} : After[n] /= {}

\* the schema of the scenario: A has no reference, B has
\* {{repl ConfigOption "A"}}, C has {{repl ConfigOptionEquals "A" "1"}}
ScenarioSchema ==
    << <<ConfigItem("A", NoTemplate)>>,
       <<ConfigItem("B", [calls |-> <<[fn |-> "ConfigOption", dep |-> "A", rest |-> <<>>]>>,
                          fails |-> FALSE]),
         ConfigItem("C", [calls |-> <<[fn |-> "ConfigOptionEquals", dep |-> "A",
                                       rest |-> <<"1">>]>>,
                          fails |-> FALSE])>> >>

ScenarioGraph == ("A" :> {}) @@ ("B" :> {"A"}) @@ ("C" :> {"A"})

\* C11: on the schema with A (no reference), B (ConfigOption "A") and C
\* (ConfigOptionEquals "A" "1"), discovery records exactly the edges B -> A
\* and C -> A, the compared value "1" being no dependency; the first
\* GetHeadNodes of the loop returns exactly A, the second exactly B and C, and
\* the loop then ends with the graph empty, after two iterations.
C11_Scenario ==
    configGroups = ScenarioSchema =>
        /\ pc \notin {"parseFailed", "failed"}
        /\ pc # "discover" => recorded = ScenarioGraph
        /\ iter <= 2
        /\ pc = "render" /\ iter = 0 => Range(ret.headNodes) = {"A"}
        /\ pc = "render" /\ iter = 1 => Range(ret.headNodes) = {"B", "C"}
        /\ pc = "render" => Len(ret.headNodes) = Cardinality(Range(ret.headNodes))
        /\ pc = "resolve" /\ iter = 0 => View(mem, "d") = ScenarioGraph
        /\ pc = "resolve" /\ iter = 1 => View(mem, "d") = ("B" :> {}) @@ ("C" :> {})
        /\ pc = "resolve" /\ iter = 2 => View(mem, "d") = EmptyMap
        /\ pc = "done" => /\ iter = 2
                          /\ View(mem, "d") = EmptyMap
                          /\ headIter = ("A" :> 1) @@ ("B" :> 2) @@ ("C" :> 2)
                          /\ resolvedIter = headIter

C11_Witness ==
    /\ configGroups = ScenarioSchema
    /\ pc = "done"
    /\ iter = 2

\* the names the schema declares as configuration items
Declared == Range(configItems)

\* the graph of the resolution loop, as it stands
Deps == View(mem, "d")

\* one iteration of the loop that did not fail takes exactly the head nodes
\* GetHeadNodes returned, at least one, out of the node set
C15_Shrinks ==
    (pc = "render" /\ pc' = "resolve") =>
        /\ Range(ret.headNodes) /= {}
        /\ Range(ret.headNodes) \subseteq DOMAIN Deps
        /\ DOMAIN Deps' = DOMAIN Deps \ Range(ret.headNodes)
        /\ Cardinality(DOMAIN Deps') < Cardinality(DOMAIN Deps)
        /\ iter' = iter + 1

\* the loop on a graph of N nodes has made at most N iterations, one at
\* least for every node it took out, and ends with the graph empty or failed
C15_Bounded ==
    Discovered =>
        /\ iter + Cardinality(DOMAIN Deps) <= Cardinality(DOMAIN recorded)
        /\ (pc = "done" => Deps = EmptyMap)
        /\ (pc = "failed" => Deps /= EmptyMap)

C17_Unmodified == last'.op = "GetHeadNodes" => mem' = mem

\* at a failure every node in the way is present with all the dependencies
\* discovery recorded for it, less the items resolved since
C17_Intact ==
    /\ (last.op = "GetHeadNodes" => Views(mem) = pre)
    /\ (pc = "failed" =>
          /\ Deps /= EmptyMap
          /\ \A n \in DOMAIN Deps :
                /\ n \in DOMAIN recorded
                /\ Deps[n] /= {}
                /\ Deps[n] = recorded[n] \ DOMAIN resolvedIter
          /\ \A n \in DOMAIN recorded \ DOMAIN resolvedIter : n \in DOMAIN Deps)

\* C17: GetHeadNodes never modifies the graph, on success or on failure; where
\* resolution fails the graph is intact, every blocked node present with its
\* full remaining dependency set
C17_GetHeadNodesReadOnly == [][C17_Unmodified]_vars /\ []C17_Intact

\* resolution failed on a cycle after an iteration that resolved an item
C17_Witness ==
    /\ pc = "failed"
    /\ iter = 1
    /\ Cardinality(DOMAIN Deps) = 2
    /\ ~Acyclic(recorded)
    /\ \E n \in DOMAIN Deps : Deps[n] /= recorded[n]

\* n depends, directly or through other nodes, on a node of a cycle or on a
\* name that was never declared
Blocked(n) ==
    \E x \in DependsOn(recorded, n) :
        \/ x \notin Declared
        \/ x \in DOMAIN recorded /\ x \in DependsOn(recorded, x)

\* C18: when the resolution loop fails, the items resolved before are exactly
\* the nodes that do not depend, directly or transitively, on a node of a
\* cycle or on an undeclared name; every other node is in the graph and in
\* the error; an item referencing an undeclared name is never returned by
\* GetHeadNodes
C18_FailureSplit ==
    /\ (pc = "failed" =>
          /\ DOMAIN resolvedIter = {n \in DOMAIN recorded : ~Blocked(n)}
          /\ DOMAIN resolveCount = DOMAIN resolvedIter
          /\ DOMAIN Deps = {n \in DOMAIN recorded : Blocked(n)}
          /\ {item.k : item \in ret.err.waitList} = {Quote(n) : n \in DOMAIN Deps})
    /\ \A n \in DOMAIN headIter : n \in DOMAIN recorded /\ recorded[n] \subseteq Declared
    /\ (last.op = "GetHeadNodes" /\ Discovered =>
          \A n \in Range(ret.headNodes) : ~Blocked(n))

\* no cycle, one item resolved, one item referencing an undeclared name and
\* one item depending on that one both left in the graph
C18_Witness ==
    /\ pc = "failed"
    /\ Acyclic(recorded)
    /\ Cardinality(DOMAIN resolvedIter) = 1
    /\ \E n \in DOMAIN Deps : Undeclared \in recorded[n]
    /\ \E n \in DOMAIN Deps : Undeclared \notin recorded[n]

\* a step of discovery removes no node and no edge, adds at most the node of
\* the item it renders, and adds edges from that item only
C19_Grows ==
    pc = "discover" =>
        /\ \A n \in DOMAIN Deps : n \in DOMAIN Deps' /\ Deps[n] \subseteq Deps'[n]
        /\ (last'.op = "ParseConfigItem" =>
              /\ DOMAIN Deps' = DOMAIN Deps \cup {last'.source}
              /\ \A n \in DOMAIN Deps' \ {last'.source} : Deps'[n] = Deps[n])
        /\ (last'.op = "ParseConfigGroup" => Deps' = Deps)

\* the nodes are the declared items, during discovery and when it returns
C19_Nodes ==
    /\ (pc = "discover" => DOMAIN Deps = Declared)
    /\ (Discovered => DOMAIN recorded = Declared /\ Undeclared \notin DOMAIN recorded)

\* C19: during ParseConfigGroup no node or edge is removed, every edge added
\* has the item being rendered as its source, and from an empty graph the
\* final node set is exactly the set of declared item names, a referenced
\* name that is no item appearing in dependency sets only
C19_DiscoveryGrows == [][C19_Grows]_vars /\ []C19_Nodes

\* discovery returned a graph of three items, one referencing an undeclared
\* name and one referencing an item declared after it
C19_Witness ==
    /\ last.op = "ParseConfigGroup"
    /\ Len(configItems) = 3
    /\ \E n \in DOMAIN recorded : Undeclared \in recorded[n]
    /\ "C" \in recorded["A"]

\* C16: each of the five config functions bound to item P, called with the
\* referenced name R and any further arguments, does what AddDep(P, R) does
\* and nothing else, and returns R: P is a node afterwards and is the only
\* node that can be new, P's dependency set gains R and no other name, every
\* other node keeps its dependency set, and no further argument is recorded
C16_RecordsOneDep ==
    last.op \in FuncNames =>
        LET P == last.source
            R == last.dep
        IN  /\ ret.kind = "string" /\ ret.str = R
            /\ DOMAIN After = DOMAIN Before \cup {P}
            /\ After[P] = (IF P \in DOMAIN Before THEN Before[P] ELSE {}) \cup {R}
            /\ \A n \in DOMAIN Before \ {P} : After[n] = Before[n]
            /\ \A x \in Range(last.rest) :
                  x \in After[P] => x = R \/ (P \in DOMAIN Before /\ x \in Before[P])
            /\ View(mem, Other) = pre[Other]
            /\ After = View(AddDep(mem, "d", P, R), "d")

\* ConfigOptionNotEquals "A" "B", bound to a new item, on a graph that holds
\* another node with a dependency
C16_Witness ==
    /\ last.op = "ConfigOptionNotEquals"
    /\ last.dep = "A"
    /\ last.rest = <<"B">>
    /\ last.source \notin DOMAIN Before
    /\ \E n \in DOMAIN Before : Before[n] /= {}
    /\ "B" \notin After[last.source]

\* the positions of the rules of a combined spec that are rules, not nil
RulesOf(doc) == {i \in DOMAIN doc.Redactors : ~doc.Redactors[i].isNil}

\* the slug of the rule at position i: from its name, or from
\* "redactor-<index>", the index counting from 0
ExpectedSlug(doc, i) ==
    getSlug(IF doc.Redactors[i].Name /= NoName THEN doc.Redactors[i].Name
            ELSE RedactorName(i - 1))

\* data holds the combined spec of a Redactor and nothing else
OnlyLegacy(data) ==
    /\ DOMAIN data = {LegacyKey}
    /\ data[LegacyKey].kind = "yaml"
    /\ data[LegacyKey].doc.kind = "Redactor"

\* process p has returned from a GetRedactInfo that found only the combined
\* spec and returned no error
MigratedLegacy(p) ==
    /\ running[p].pc = "done"
    /\ running[p].op = "GetRedactInfo"
    /\ running[p].result.err = ""
    /\ OnlyLegacy(running[p].read.data)

\* what C12 says of the call of p on the combined spec doc
MigrationSplitsAll(p, doc) ==
    LET c    == running[p]
        list == c.result.list
    IN  /\ c.wrote
        /\ Len(list) = Cardinality(RulesOf(doc))
        /\ DOMAIN c.obj.data = {ExpectedSlug(doc, i) : i \in RulesOf(doc)}
        /\ Cardinality(DOMAIN c.obj.data) = Cardinality(RulesOf(doc))
        /\ \A i, j \in DOMAIN list : i /= j => list[i].Slug /= list[j].Slug
        /\ \A i \in RulesOf(doc) :
              /\ \E j \in DOMAIN list : list[j].Slug = ExpectedSlug(doc, i)
              /\ \E k \in DOMAIN c.obj.data : Unmarshal(c.obj.data[k]).entry.Redact.Body = i
        /\ \A j \in DOMAIN list : list[j].Enabled
        /\ LegacyKey \notin DOMAIN c.obj.data
        /\ (cluster.rv = c.obj.rv => cluster.data = c.obj.data /\ LegacyKey \notin DOMAIN cluster.data)

\* C12: a store that holds only the combined key with N rules, read through
\* GetRedactInfo, gives N entries, one per rule, with unique slugs derived
\* from each rule's name or from "redactor-<index>", all enabled, and the
\* combined key is absent from the store after the read
C12_LegacyMigration ==
    \A p \in Procs :
        MigratedLegacy(p) =>
            MigrationSplitsAll(p, running[p].read.data[LegacyKey].doc)

\* the slugs of the rules of doc differ from one another
DistinctSlugs(doc) ==
    \A i, j \in RulesOf(doc) : i /= j => ExpectedSlug(doc, i) /= ExpectedSlug(doc, j)

\* what holds in place of C12: the split is as C12 says when no two rules of
\* the combined spec have the same slug
MigrationOfDistinctSlugs ==
    \A p \in Procs :
        (MigratedLegacy(p) /\ DistinctSlugs(running[p].read.data[LegacyKey].doc)) =>
            MigrationSplitsAll(p, running[p].read.data[LegacyKey].doc)

\* process p has returned from a GetRedactInfo that split the combined spec
\* and wrote the store
Migrated(p) ==
    /\ running[p].pc = "done"
    /\ running[p].op = "GetRedactInfo"
    /\ running[p].wrote

\* process q has returned from a GetRedactInfo that read the store as the
\* write of p left it
ReadAfter(q, p) ==
    /\ running[q].pc = "done"
    /\ running[q].op = "GetRedactInfo"
    /\ running[q].read.rv = running[p].obj.rv

\* the further GetRedactInfo of q writes nothing and leaves every entry as the
\* migration of p wrote it
StoreUnchanged(q, p) ==
    /\ ~running[q].wrote
    /\ running[q].over = NoObject
    /\ running[q].read.data = running[p].obj.data
    /\ cluster.data = running[p].obj.data
    /\ cluster.rv = running[p].obj.rv
    /\ running[q].result.err = running[p].result.err

\* C13 as stated: after one GetRedactInfo has migrated the store, a further
\* GetRedactInfo leaves the store contents unchanged and returns the same
\* list of entries
C13_SameList ==
    \A p, q \in Procs :
        (p /= q /\ Migrated(p) /\ ReadAfter(q, p)) =>
            /\ StoreUnchanged(q, p)
            /\ running[q].result.list = running[p].result.list

\* C13 as amended: after one GetRedactInfo has migrated the store, a further
\* GetRedactInfo leaves the store contents unchanged and returns the same
\* entries, in an order that can differ from call to call
C13_SameEntries ==
    \A p, q \in Procs :
        (p /= q /\ Migrated(p) /\ ReadAfter(q, p)) =>
            /\ StoreUnchanged(q, p)
            /\ Len(running[q].result.list) = Len(running[p].result.list)
            /\ Range(running[q].result.list) = Range(running[p].result.list)
            /\ Range(running[q].result.list) =
                   {Unmarshal(cluster.data[k]).entry.Metadata : k \in DOMAIN cluster.data}

\* a migration to two entries, and a further read that returns them in the
\* other order
C13_Witness ==
    \E p, q \in Procs :
        /\ p /= q /\ Migrated(p) /\ ReadAfter(q, p)
        /\ OnlyLegacy(running[p].read.data)
        /\ Len(running[p].result.list) = 2
        /\ Len(running[q].result.list) = 2
        /\ running[q].result.list /= running[p].result.list

\* the name SetRedactYaml gives the entry: the request's, else the yaml's
RequestedName(a) == IF a.name /= NoName THEN a.name ELSE a.yamlName

\* the request creates an entry: none is stored at its slug, or newRedact
Creates(a, data) == a.slug \notin DOMAIN data \/ a.newRedact

\* the request renames the entry stored at its slug
Renames(a, data) ==
    /\ ~Creates(a, data)
    /\ RequestedName(a) /= NoName
    /\ getSlug(RequestedName(a)) /= a.slug

\* the slug derived for the entry of the request
DerivedSlug(a) == IF RequestedName(a) = NoName THEN a.slug ELSE getSlug(RequestedName(a))

\* the request creates or renames an entry so that its derived slug is a key
\* of the store
Collides(a, data) ==
    (Creates(a, data) \/ Renames(a, data)) /\ DerivedSlug(a) \in DOMAIN data

\* C14: a SetRedactYaml that creates an entry, or renames one, so that its
\* derived slug is the key of an entry already in the store returns an error,
\* and writes nothing to the store
C14_CollisionRejected ==
    \A p \in Procs :
        LET c == running[p]
        IN  (c.op = "SetRedactYaml" /\ c.pc \in {"write", "done"} /\ c.args.yamlValid
                /\ Collides(c.args, c.read.data)) =>
                /\ c.pc = "done"
                /\ c.result.err /= ""
                /\ ~c.wrote
                /\ c.over = NoObject
                /\ (cluster.rv = c.read.rv => cluster.data = c.read.data)

\* one process refused to create "a-b" beside the entry "a-b", the other to
\* rename "redactor-0" to a name whose slug is "a-b"
C14_Witness ==
    \E p, q \in Procs :
        /\ p /= q
        /\ running[p].op = "SetRedactYaml" /\ running[p].pc = "done"
        /\ running[p].args.newRedact
        /\ Collides(running[p].args, running[p].read.data)
        /\ running[p].result.err = "refusing to create new redact spec"
        /\ running[q].op = "SetRedactYaml" /\ running[q].pc = "done"
        /\ Renames(running[q].args, running[q].read.data)
        /\ Collides(running[q].args, running[q].read.data)
        /\ running[q].result.err = "refusing to change slug"
        /\ cluster.data = running[q].read.data

\* C20: with an Update of a stale object refused by the cluster, a write that
\* succeeds replaces exactly the object its call read, so of two calls that
\* wrote the later one read what the earlier one committed; a call whose
\* object was stale at its write returns an error and writes nothing
C20_NoLostUpdate ==
    /\ \A p \in Procs :
          LET c == running[p]
          IN  /\ c.wrote => c.over = c.read /\ c.obj.rv = c.read.rv + 1
              /\ (c.pc = "done" /\ c.over /= NoObject /\ c.over /= c.read) =>
                    c.result.err /= "" /\ ~c.wrote
    /\ \A p, q \in Procs :
          (running[p].wrote /\ running[q].wrote /\ running[q].obj.rv > running[p].obj.rv) =>
              running[q].read.rv >= running[p].obj.rv
    /\ \A p \in Procs : running[p].wrote => cluster.rv >= running[p].obj.rv

\* a SetRedactYaml and the migration of GetRedactInfo read the same object;
\* the migration was written, and the SetRedactYaml returned the error of its
\* refused write
C20_Witness ==
    \E p, q \in Procs :
        /\ running[p].op = "GetRedactInfo" /\ running[p].wrote
        /\ running[q].op = "SetRedactYaml" /\ running[q].pc = "done"
        /\ running[q].read = running[p].read
        /\ running[q].over = running[p].obj
        /\ running[q].result.err = "failed to update configmap"
        /\ cluster.data = running[p].obj.data

====
